---- MODULE Spec2Model ----
(***************************************************************************)
(* Model of the two programs of the repository:                            *)
(*   scripts/cloudflare-access/validate-jwt.py  (Cloudflare Access JWT     *)
(*       validation, its key cache and its Flask / ASGI wrappers), and     *)
(*   apps/examples/python-fastapi/src/main.py   (in-memory items CRUD).    *)
(* Threads of the validator are modelled at the granularity of their       *)
(* accesses to the module globals (_config_validated, _keys_cache,         *)
(* _keys_cache_time); everything a thread does on locals is one step.      *)
(***************************************************************************)
EXTENDS Integers, Sequences, FiniteSets, TLC

VARIABLES
    TEAM_DOMAIN,        \* module global, read from CF_TEAM_DOMAIN at import
    AUD_TAG,            \* module global, read from CF_AUD_TAG at import
    _config_validated,  \* module global flag of _validate_config
    _keys_cache,        \* module global: None or the list of keys
    _keys_cache_time,   \* module global: current_time of the storing call
    keys_fetched_at,    \* history: current_time of the call whose line 77 stored _keys_cache
    now,                \* the clock read by time.time() and by jwt.decode
    pc,                 \* per thread: position in the request
    mode,               \* per thread: entry point of the request
    scope,              \* per thread: ASGI scope['type'] of the request
    token,              \* per thread: the token of the request
    current_time,       \* per thread: local current_time of get_public_keys
    response,           \* per thread: key list of the fetched response
    keys,               \* per thread: local keys of validate_access_jwt (None: unbound)
    fetched,            \* per thread: requests.get was called by this call
    result,             \* per thread: outcome of validate_access_jwt
    http,               \* per thread: response sent by the wrapper
    invoked,            \* per thread: the wrapped handler / app was called
    cf_access,          \* per thread: g.cf_access / scope['cf_access']
    items_db,           \* main.py: the in-memory store
    api                 \* main.py: the last request and its response

vars == <<TEAM_DOMAIN, AUD_TAG, _config_validated, _keys_cache, _keys_cache_time,
          keys_fetched_at, now, pc, mode, scope, token, current_time, response, keys, fetched,
          result, http, invoked, cf_access, items_db, api>>

jwtShared == <<TEAM_DOMAIN, AUD_TAG, _config_validated, _keys_cache, _keys_cache_time,
               keys_fetched_at, now>>
jwtLocal == <<pc, mode, scope, token, current_time, response, keys, fetched,
              result, http, invoked, cf_access>>
itemVars == <<items_db, api>>

-----------------------------------------------------------------------------
(* Bounds of the model *)

MaxTicks == 2

Threads == {"t1", "t2"}

-----------------------------------------------------------------------------
(* Constants of validate-jwt.py *)

CACHE_DURATION == 86400

\* The clock advances in steps of half the freshness window.
TickSeconds == CACHE_DURATION \div 2

Unset == ""
TeamDomains == {Unset, "team.example.com"}
AudTags == {Unset, "app1"}

\* Option values: Python None and a held value.
None == << >>
Some(v) == <<v>>

-----------------------------------------------------------------------------
(* Signing keys, key sets and tokens *)

Kids == {"abc", "xyz"}
Materials == {"pk1", "pk2"}

\* A JWK record: its kid and its public-key material.
Jwk(kid, mat) == [kid |-> kid, mat |-> mat]

\* Key lists the certs endpoint can return: empty, one key, two keys with the
\* same kid, and a rotated key.
KeySets == { << >>,
             << Jwk("abc", "pk1") >>,
             << Jwk("abc", "pk2"), Jwk("abc", "pk1") >>,
             << Jwk("xyz", "pk2") >> }

NoExp == 0 - 1
TokenExp == TickSeconds
NoKid == "-"

\* A token: form is "absent" (no header / empty string), "malformed" (not a
\* three-part signed token) or "jws"; kid is the header's kid (NoKid: the header
\* has none); sig is the key material whose private key signed it; aud, iss,
\* exp, sub are payload claims.
Tok(form, kid, sig, aud, iss, exp) ==
    [form |-> form, kid |-> kid, sig |-> sig, aud |-> aud, iss |-> iss, exp |-> exp,
     sub |-> "user-1"]

NoToken == Tok("absent", NoKid, "pk1", "", "", NoExp)
MalformedToken == Tok("malformed", NoKid, "pk1", "", "", NoExp)
NoKidToken == Tok("jws", NoKid, "pk1", "app1", "https://team.example.com", NoExp)

Audiences == {"app1", "app2"}
Issuers == {"https://team.example.com", "https://evil.example.com"}
Expiries == {NoExp, TokenExp}

JwsTokens == { Tok("jws", k, s, a, i, e) :
                 k \in Kids, s \in Materials, a \in Audiences, i \in Issuers, e \in Expiries }

\* The tokens that are not a signed token with a kid.
OtherTokens == {MalformedToken, NoKidToken}

\* Tokens of the concurrent specification: every kid / signer pair with good
\* claims, one with a wrong audience, and a malformed one.
CoreTokens ==
    { Tok("jws", "abc", "pk1", "app1", "https://team.example.com", TokenExp),
      Tok("jws", "abc", "pk2", "app1", "https://team.example.com", TokenExp),
      Tok("jws", "xyz", "pk1", "app1", "https://team.example.com", TokenExp),
      Tok("jws", "xyz", "pk2", "app1", "https://team.example.com", TokenExp),
      Tok("jws", "abc", "pk1", "app2", "https://team.example.com", NoExp),
      MalformedToken }

Payload(t) == [sub |-> t.sub, aud |-> t.aud, iss |-> t.iss, exp |-> t.exp]
NoPayload == [sub |-> "", aud |-> "", iss |-> "", exp |-> NoExp]

-----------------------------------------------------------------------------
(* Outcomes of a call: returned claims or a raised exception *)

Return(payload) == [kind |-> "return", exc |-> "", payload |-> payload]
Raise(exc) == [kind |-> "raise", exc |-> exc, payload |-> NoPayload]
NoResult == [kind |-> "", exc |-> "", payload |-> NoPayload]

-----------------------------------------------------------------------------
(* Exception classes raised on the paths of validate_access_jwt, with their  *)
(* base classes (builtins, requests.exceptions, jwt.exceptions).             *)

Base(c) ==
    CASE c = "ValueError" -> "Exception"
      [] c = "KeyError" -> "LookupError"
      [] c = "LookupError" -> "Exception"
      [] c = "HTTPError" -> "RequestException"
      [] c = "Timeout" -> "RequestException"
      [] c = "RequestException" -> "OSError"
      [] c = "OSError" -> "Exception"
      [] c = "InvalidSignatureError" -> "DecodeError"
      [] c = "DecodeError" -> "InvalidTokenError"
      [] c = "ExpiredSignatureError" -> "InvalidTokenError"
      [] c = "InvalidAudienceError" -> "InvalidTokenError"
      [] c = "InvalidIssuerError" -> "InvalidTokenError"
      [] c = "InvalidTokenError" -> "PyJWTError"
      [] c = "PyJWTError" -> "Exception"
      [] OTHER -> "BaseException"

RECURSIVE IsInstance(_, _)
\* isinstance(e, cls) for an exception e of class c: what `except cls` catches.
IsInstance(c, cls) ==
    IF c = cls THEN TRUE
    ELSE IF c = "BaseException" THEN FALSE
    ELSE IsInstance(Base(c), cls)

-----------------------------------------------------------------------------
(* _validate_config, lines 36-54 *)

\* The names appended to `missing` (lines 42-46); a value is missing when falsy.
MissingConfig(domain, aud) ==
    (IF domain = Unset THEN <<"CF_TEAM_DOMAIN">> ELSE << >>)
    \o (IF aud = Unset THEN <<"CF_AUD_TAG">> ELSE << >>)

\* Mutant of validate_config: the check of `missing` is left out.
validate_config_unchecked(validated, domain, aud) ==
    [raised |-> FALSE, validated |-> TRUE]

\* Outcome of one call: whether ValueError is raised and the flag afterwards.
validate_config(validated, domain, aud) ==
    IF validated
    THEN [raised |-> FALSE, validated |-> validated]
    ELSE IF MissingConfig(domain, aud) # << >>
         THEN [raised |-> TRUE, validated |-> validated]
         ELSE [raised |-> FALSE, validated |-> TRUE]

-----------------------------------------------------------------------------
(* validate_access_jwt after the keys are held, lines 100-113 *)

\* f'https://{TEAM_DOMAIN}' (line 110)
Issuer(domain) == "https://" \o domain

\* The signature of t verifies under key exactly when the key's material is
\* the public half of the key that signed t.
SignatureVerifies(t, key) == t.sig = key.mat

\* Mutant of jwt_decode: the signature is not verified.
jwt_decode_unverified(t, key, audience, issuer, time) ==
    IF t.exp # NoExp /\ t.exp <= time THEN Raise("ExpiredSignatureError")
    ELSE IF t.iss # issuer THEN Raise("InvalidIssuerError")
    ELSE IF t.aud # audience THEN Raise("InvalidAudienceError")
    ELSE Return(Payload(t))

\* Mutant of jwt_decode: the audience is not compared.
jwt_decode_any_audience(t, key, audience, issuer, time) ==
    IF ~SignatureVerifies(t, key) THEN Raise("InvalidSignatureError")
    ELSE IF t.exp # NoExp /\ t.exp <= time THEN Raise("ExpiredSignatureError")
    ELSE IF t.iss # issuer THEN Raise("InvalidIssuerError")
    ELSE Return(Payload(t))

\* jwt.decode(token, public_key, algorithms=['RS256'], audience=..., issuer=...)
\* (lines 105-111): the signature is verified first, then exp, iss and aud.
jwt_decode(t, key, audience, issuer, time) ==
    IF ~SignatureVerifies(t, key) THEN Raise("InvalidSignatureError")
    ELSE IF t.exp # NoExp /\ t.exp <= time THEN Raise("ExpiredSignatureError")
    ELSE IF t.iss # issuer THEN Raise("InvalidIssuerError")
    ELSE IF t.aud # audience THEN Raise("InvalidAudienceError")
    ELSE Return(Payload(t))

RECURSIVE ScanKeysAnyVerifying(_, _, _, _, _, _)
\* Mutant of ScanKeys: a key with the header's kid under which the signature
\* does not verify is skipped when a later key carries the same kid.
ScanKeysAnyVerifying(ks, i, t, audience, domain, time) ==
    IF i > Len(ks) THEN Raise("Exception")
    ELSE IF t.kid = NoKid THEN Raise("KeyError")
    ELSE IF /\ ks[i].kid = t.kid
            /\ \/ SignatureVerifies(t, ks[i])
               \/ \A j \in (i + 1) .. Len(ks) : ks[j].kid # t.kid
         THEN jwt_decode(t, ks[i], audience, Issuer(domain), time)
         ELSE ScanKeysAnyVerifying(ks, i + 1, t, audience, domain, time)

RECURSIVE ScanKeys(_, _, _, _, _, _)
\* The loop of lines 102-113 from index i on: header['kid'] is read on each
\* iteration (KeyError when the header has none), the first key with the
\* header's kid decides, and falling off the list raises Exception.
ScanKeys(ks, i, t, audience, domain, time) ==
    IF i > Len(ks) THEN Raise("Exception")
    ELSE IF t.kid = NoKid THEN Raise("KeyError")
    ELSE IF ks[i].kid = t.kid
         THEN jwt_decode(t, ks[i], audience, Issuer(domain), time)
         ELSE ScanKeys(ks, i + 1, t, audience, domain, time)

\* Lines 100-113: jwt.get_unverified_header raises DecodeError on a token that
\* is not a three-part signed token.
validate_with_keys(t, ks, audience, domain, time) ==
    IF t.form # "jws" THEN Raise("DecodeError")
    ELSE ScanKeys(ks, 1, t, audience, domain, time)

-----------------------------------------------------------------------------
(* The wrappers: access_required, access_optional, CloudflareAccessMiddleware *)

Modes == {"direct", "flask_required", "flask_optional", "asgi_required", "asgi_optional"}
RequiredModes == {"flask_required", "asgi_required"}
OptionalModes == {"flask_optional", "asgi_optional"}
AsgiModes == {"asgi_required", "asgi_optional"}
ScopeTypes(m) == IF m \in AsgiModes THEN {"http", "websocket"} ELSE {"http"}

NoResponse == [status |-> 0, error |-> "", message |-> ""]
Unauthorized(message) == [status |-> 401, error |-> "Unauthorized", message |-> message]

\* Mutant of InvalidTokenResponse: the exception is put in the message.
InvalidTokenResponseLeaky(m, e) == Unauthorized(e)

\* The 401 sent when validate_access_jwt raised e (lines 139-143, 209-215).
InvalidTokenResponse(m, e) ==
    IF m = "flask_required" THEN Unauthorized("Invalid Cloudflare Access token")
    ELSE Unauthorized("Invalid token")

\* The 401 sent when no token was given (lines 124-128, 193-200).
NoTokenResponse(m) ==
    IF m = "flask_required" THEN Unauthorized("No Cloudflare Access token provided")
    ELSE Unauthorized("No token")

\* The identity attached on success (lines 132-138, 162-168, 205-208): the Flask
\* decorators copy sub and exp (and keep the payload), the middleware copies
\* sub only (exp is NoExp there).
Identity(m, payload) ==
    IF m \in AsgiModes THEN [sub |-> payload.sub, exp |-> NoExp]
    ELSE [sub |-> payload.sub, exp |-> payload.exp]

\* Mutant of OptionalReset: line 157 is left out.
OptionalResetMissing(g) == g

\* g.cf_access = None, line 157.
OptionalReset(g) == None

\* What a wrapper does before it calls validate_access_jwt: `call` says whether
\* it goes on to validate; otherwise the request ends with invoked / http.
\* (lines 123-128; 156-159 and 172; 186-200 and 219-222)
WrapperEntry(m, st, present, g) ==
    CASE m = "direct" ->
            [call |-> TRUE, invoked |-> FALSE, http |-> NoResponse, cf |-> g]
      [] m = "flask_required" ->
            IF ~present
            THEN [call |-> FALSE, invoked |-> FALSE, http |-> NoTokenResponse(m), cf |-> g]
            ELSE [call |-> TRUE, invoked |-> FALSE, http |-> NoResponse, cf |-> g]
      [] m = "flask_optional" ->
            IF ~present
            THEN [call |-> FALSE, invoked |-> TRUE, http |-> NoResponse,
                  cf |-> OptionalReset(g)]
            ELSE [call |-> TRUE, invoked |-> FALSE, http |-> NoResponse,
                  cf |-> OptionalReset(g)]
      [] m \in AsgiModes ->
            IF st # "http"
            THEN [call |-> FALSE, invoked |-> TRUE, http |-> NoResponse, cf |-> g]
            ELSE IF ~present /\ m = "asgi_required"
            THEN [call |-> FALSE, invoked |-> FALSE, http |-> NoTokenResponse(m), cf |-> g]
            ELSE IF present
            THEN [call |-> TRUE, invoked |-> FALSE, http |-> NoResponse, cf |-> g]
            ELSE [call |-> FALSE, invoked |-> TRUE, http |-> NoResponse, cf |-> None]

\* Mutant of HandlerRuns: the `return` of the except branch is left out.
HandlerRunsAlways(m, res) == TRUE

\* Whether the wrapped handler / app runs once validate_access_jwt has ended with
\* res (lines 139-145, 169-172, 209-222).
HandlerRuns(m, res) ==
    IF m \in RequiredModes THEN res.kind = "return" ELSE TRUE

\* What a wrapper does once validate_access_jwt has ended with res.
\* (lines 130-145; 160-172; 202-222)
WrapperExit(m, res, g) ==
    IF m = "direct"
    THEN [invoked |-> FALSE, http |-> NoResponse, cf |-> g]
    ELSE IF res.kind = "return"
    THEN [invoked |-> HandlerRuns(m, res), http |-> NoResponse,
          cf |-> Some(Identity(m, res.payload))]
    ELSE [invoked |-> HandlerRuns(m, res),
          http |-> IF m \in RequiredModes THEN InvalidTokenResponse(m, res.exc)
                   ELSE NoResponse,
          cf |-> IF m = "asgi_optional" THEN None ELSE g]

-----------------------------------------------------------------------------
(* Initial state: the module has been imported, no request is in progress *)

InitialItems ==
    << [id |-> 1, name |-> "Laptop", in_stock |-> TRUE],
       [id |-> 2, name |-> "Mouse", in_stock |-> TRUE],
       [id |-> 3, name |-> "Keyboard", in_stock |-> FALSE] >>

NoItem == [id |-> 0, name |-> "", in_stock |-> FALSE]
NoCall == [op |-> "", id |-> 0, item |-> NoItem, status |-> 0]

\* Everything but the two configuration globals.
InitRest ==
    /\ _config_validated = FALSE                          \* line 34
    /\ _keys_cache = None                                 \* line 57
    /\ _keys_cache_time = 0                               \* line 58
    /\ keys_fetched_at = 0
    /\ now = 0
    /\ pc = [p \in Threads |-> "idle"]
    /\ mode = [p \in Threads |-> "direct"]
    /\ scope = [p \in Threads |-> "http"]
    /\ token = [p \in Threads |-> NoToken]
    /\ current_time = [p \in Threads |-> 0]
    /\ response = [p \in Threads |-> << >>]
    /\ keys = [p \in Threads |-> None]
    /\ fetched = [p \in Threads |-> FALSE]
    /\ result = [p \in Threads |-> NoResult]
    /\ http = [p \in Threads |-> NoResponse]
    /\ invoked = [p \in Threads |-> FALSE]
    /\ cf_access = [p \in Threads |-> None]
    /\ items_db = InitialItems                            \* main.py lines 75-79
    /\ api = NoCall

\* The environment may or may not set CF_TEAM_DOMAIN and CF_AUD_TAG.
Init ==
    /\ TEAM_DOMAIN \in TeamDomains                        \* line 30
    /\ AUD_TAG \in AudTags                                \* line 31
    /\ InitRest

-----------------------------------------------------------------------------
(* Steps of a request of thread p *)

\* time.time() moves on.
Tick ==
    /\ now + TickSeconds <= MaxTicks * TickSeconds
    /\ now' = now + TickSeconds
    /\ UNCHANGED <<TEAM_DOMAIN, AUD_TAG, _config_validated, _keys_cache, _keys_cache_time,
                   keys_fetched_at>>
    /\ UNCHANGED jwtLocal
    /\ UNCHANGED itemVars

\* validate_access_jwt ends with res in thread p: the wrapper of the request
\* handles it (lines 130-145, 160-172, 202-222).
Complete(p, res) ==
    LET out == WrapperExit(mode[p], res, cf_access[p]) IN
    /\ result' = [result EXCEPT ![p] = res]
    /\ http' = [http EXCEPT ![p] = out.http]
    /\ invoked' = [invoked EXCEPT ![p] = out.invoked]
    /\ cf_access' = [cf_access EXCEPT ![p] = out.cf]
    /\ pc' = [pc EXCEPT ![p] = "done"]

\* A request with token t arrives through entry point m (an absent token only
\* through a wrapper); the wrapper's code before validate_access_jwt runs.
Request(p, m, t) ==
    /\ pc[p] = "idle"
    /\ (m = "direct" => t.form # "absent")
    /\ \E st \in ScopeTypes(m) :
         LET e == WrapperEntry(m, st, t.form # "absent", cf_access[p]) IN
         /\ mode' = [mode EXCEPT ![p] = m]
         /\ scope' = [scope EXCEPT ![p] = st]
         /\ token' = [token EXCEPT ![p] = t]
         /\ cf_access' = [cf_access EXCEPT ![p] = e.cf]
         /\ http' = [http EXCEPT ![p] = e.http]
         /\ invoked' = [invoked EXCEPT ![p] = e.invoked]
         /\ pc' = [pc EXCEPT ![p] = IF e.call THEN "validate" ELSE "done"]
    /\ UNCHANGED <<current_time, response, keys, fetched, result>>
    /\ UNCHANGED jwtShared
    /\ UNCHANGED itemVars

\* validate_access_jwt line 98: _validate_config().
ValidateEnter(p) ==
    /\ pc[p] = "validate"
    /\ LET c == validate_config(_config_validated, TEAM_DOMAIN, AUD_TAG) IN
       /\ _config_validated' = c.validated
       /\ IF c.raised
          THEN Complete(p, Raise("ValueError"))
          ELSE /\ pc' = [pc EXCEPT ![p] = "get_public_keys"]
               /\ UNCHANGED <<result, http, invoked, cf_access>>
    /\ UNCHANGED <<mode, scope, token, current_time, response, keys, fetched>>
    /\ UNCHANGED <<TEAM_DOMAIN, AUD_TAG, _keys_cache, _keys_cache_time, keys_fetched_at, now>>
    /\ UNCHANGED itemVars

\* get_public_keys lines 67-69: _validate_config(), current_time = time.time().
GetKeysEnter(p) ==
    /\ pc[p] = "get_public_keys"
    /\ LET c == validate_config(_config_validated, TEAM_DOMAIN, AUD_TAG) IN
       /\ _config_validated' = c.validated
       /\ IF c.raised
          THEN /\ Complete(p, Raise("ValueError"))
               /\ UNCHANGED current_time
          ELSE /\ current_time' = [current_time EXCEPT ![p] = now]
               /\ pc' = [pc EXCEPT ![p] = "check_cache"]
               /\ UNCHANGED <<result, http, invoked, cf_access>>
    /\ UNCHANGED <<mode, scope, token, response, keys, fetched>>
    /\ UNCHANGED <<TEAM_DOMAIN, AUD_TAG, _keys_cache, _keys_cache_time, keys_fetched_at, now>>
    /\ UNCHANGED itemVars

\* Truth value of `_keys_cache` (line 70): None and the empty list are falsy.
CacheTruthy(cache) == cache # None /\ Len(cache[1]) > 0

\* (current_time - _keys_cache_time) < CACHE_DURATION (line 70)
Fresh(time, cache_time) == (time - cache_time) < CACHE_DURATION

\* Line 70, left operand of `and`: read _keys_cache.
CheckCache(p) ==
    /\ pc[p] = "check_cache"
    /\ pc' = [pc EXCEPT ![p] = IF CacheTruthy(_keys_cache) THEN "check_age" ELSE "fetch"]
    /\ UNCHANGED <<mode, scope, token, current_time, response, keys, fetched,
                   result, http, invoked, cf_access>>
    /\ UNCHANGED jwtShared
    /\ UNCHANGED itemVars

\* Line 70, right operand: read _keys_cache_time.
CheckAge(p) ==
    /\ pc[p] = "check_age"
    /\ IF Fresh(current_time[p], _keys_cache_time)
       THEN /\ pc' = [pc EXCEPT ![p] = "hit"]
            /\ current_time' = [current_time EXCEPT ![p] = 0]   \* not read again
       ELSE /\ pc' = [pc EXCEPT ![p] = "fetch"]
            /\ UNCHANGED current_time
    /\ UNCHANGED <<mode, scope, token, response, keys, fetched,
                   result, http, invoked, cf_access>>
    /\ UNCHANGED jwtShared
    /\ UNCHANGED itemVars

\* Line 71: return _keys_cache (the global is read again).
CacheHit(p) ==
    /\ pc[p] = "hit"
    /\ keys' = [keys EXCEPT ![p] = Some(_keys_cache[1])]
    /\ pc' = [pc EXCEPT ![p] = "scan"]
    /\ UNCHANGED <<mode, scope, token, current_time, response, fetched,
                   result, http, invoked, cf_access>>
    /\ UNCHANGED jwtShared
    /\ UNCHANGED itemVars

\* Failures of lines 74-77: requests.get times out, raise_for_status raises on
\* a non-success status, the body has no 'keys'.
FetchFailures == {"Timeout", "HTTPError", "KeyError"}

\* Lines 73-77 up to the evaluation of response.json()['keys'].
FetchOk(p) ==
    /\ pc[p] = "fetch"
    /\ \E ks \in KeySets : response' = [response EXCEPT ![p] = ks]
    /\ fetched' = [fetched EXCEPT ![p] = TRUE]
    /\ pc' = [pc EXCEPT ![p] = "store_keys"]
    /\ UNCHANGED <<mode, scope, token, current_time, keys, result, http, invoked, cf_access>>
    /\ UNCHANGED jwtShared
    /\ UNCHANGED itemVars

\* A fetch failure that also drops the held keys (not what the code does).
FetchFailClearsCache(p) ==
    /\ pc[p] = "fetch"
    /\ \E e \in FetchFailures : Complete(p, Raise(e))
    /\ fetched' = [fetched EXCEPT ![p] = TRUE]
    /\ current_time' = [current_time EXCEPT ![p] = 0]
    /\ _keys_cache' = None
    /\ UNCHANGED <<mode, scope, token, response, keys>>
    /\ UNCHANGED <<TEAM_DOMAIN, AUD_TAG, _config_validated, _keys_cache_time,
                   keys_fetched_at, now>>
    /\ UNCHANGED itemVars

FetchFail(p) ==
    /\ pc[p] = "fetch"
    /\ \E e \in FetchFailures : Complete(p, Raise(e))
    /\ fetched' = [fetched EXCEPT ![p] = TRUE]
    /\ current_time' = [current_time EXCEPT ![p] = 0]           \* not read again
    /\ UNCHANGED <<mode, scope, token, response, keys>>
    /\ UNCHANGED jwtShared
    /\ UNCHANGED itemVars

\* Line 77: _keys_cache = ...
StoreKeys(p) ==
    /\ pc[p] = "store_keys"
    /\ _keys_cache' = Some(response[p])
    /\ keys_fetched_at' = current_time[p]
    /\ response' = [response EXCEPT ![p] = << >>]               \* not read again
    /\ pc' = [pc EXCEPT ![p] = "store_time"]
    /\ UNCHANGED <<TEAM_DOMAIN, AUD_TAG, _config_validated, _keys_cache_time, now>>
    /\ UNCHANGED <<mode, scope, token, current_time, keys, fetched,
                   result, http, invoked, cf_access>>
    /\ UNCHANGED itemVars

\* Line 78: _keys_cache_time = current_time
StoreTime(p) ==
    /\ pc[p] = "store_time"
    /\ _keys_cache_time' = current_time[p]
    /\ current_time' = [current_time EXCEPT ![p] = 0]           \* not read again
    /\ pc' = [pc EXCEPT ![p] = "return_keys"]
    /\ UNCHANGED <<TEAM_DOMAIN, AUD_TAG, _config_validated, _keys_cache, keys_fetched_at, now>>
    /\ UNCHANGED <<mode, scope, token, response, keys, fetched,
                   result, http, invoked, cf_access>>
    /\ UNCHANGED itemVars

\* Line 80: return _keys_cache (the global is read again).
ReturnKeys(p) ==
    /\ pc[p] = "return_keys"
    /\ keys' = [keys EXCEPT ![p] = Some(_keys_cache[1])]
    /\ pc' = [pc EXCEPT ![p] = "scan"]
    /\ UNCHANGED <<mode, scope, token, current_time, response, fetched,
                   result, http, invoked, cf_access>>
    /\ UNCHANGED jwtShared
    /\ UNCHANGED itemVars

\* Lines 100-113 on the keys returned by get_public_keys.
Scan(p) ==
    /\ pc[p] = "scan"
    /\ Complete(p, validate_with_keys(token[p], keys[p][1], AUD_TAG, TEAM_DOMAIN, now))
    /\ UNCHANGED <<mode, scope, token, current_time, response, keys, fetched>>
    /\ UNCHANGED jwtShared
    /\ UNCHANGED itemVars

\* The request is over; the thread's locals are gone (g.cf_access stays).
Finish(p) ==
    /\ pc[p] = "done"
    /\ pc' = [pc EXCEPT ![p] = "idle"]
    /\ mode' = [mode EXCEPT ![p] = "direct"]
    /\ scope' = [scope EXCEPT ![p] = "http"]
    /\ token' = [token EXCEPT ![p] = NoToken]
    /\ current_time' = [current_time EXCEPT ![p] = 0]
    /\ response' = [response EXCEPT ![p] = << >>]
    /\ keys' = [keys EXCEPT ![p] = None]
    /\ fetched' = [fetched EXCEPT ![p] = FALSE]
    /\ result' = [result EXCEPT ![p] = NoResult]
    /\ http' = [http EXCEPT ![p] = NoResponse]
    /\ invoked' = [invoked EXCEPT ![p] = FALSE]
    /\ UNCHANGED cf_access
    /\ UNCHANGED jwtShared
    /\ UNCHANGED itemVars

\* The steps of a request once it has arrived.
Step(p) ==
    \/ ValidateEnter(p)
    \/ GetKeysEnter(p)
    \/ CheckCache(p)
    \/ CheckAge(p)
    \/ CacheHit(p)
    \/ FetchOk(p)
    \/ FetchFail(p)
    \/ StoreKeys(p)
    \/ StoreTime(p)
    \/ ReturnKeys(p)
    \/ Scan(p)
    \/ Finish(p)

\* Concurrent callers of validate_access_jwt.
Next ==
    \/ Tick
    \/ \E p \in Threads, t \in CoreTokens : Request(p, "direct", t)
    \/ \E p \in Threads : Step(p)

Spec == Init /\ [][Next]_vars

\* One caller at a time, through every entry point, with every token.
MainThread == "t1"

NextSingle ==
    \/ Tick
    \/ \E m \in Modes, t \in JwsTokens : Request(MainThread, m, t)
    \/ \E m \in Modes, t \in OtherTokens : Request(MainThread, m, t)
    \/ \E m \in Modes : Request(MainThread, m, NoToken)
    \/ Step(MainThread)

SpecSingle == Init /\ [][NextSingle]_vars

\* The hosting process assigns the module globals TEAM_DOMAIN and AUD_TAG
\* (lines 30-31 bind them as plain module attributes) between two calls.
Reconfigure ==
    /\ \A p \in Threads : pc[p] = "idle"
    /\ \E d \in TeamDomains, a \in AudTags :
         /\ <<d, a>> # <<TEAM_DOMAIN, AUD_TAG>>
         /\ TEAM_DOMAIN' = d
         /\ AUD_TAG' = a
    /\ UNCHANGED <<_config_validated, _keys_cache, _keys_cache_time, keys_fetched_at, now>>
    /\ UNCHANGED jwtLocal
    /\ UNCHANGED itemVars

\* One caller at a time in a process whose configuration is reassigned.
NextReconfig ==
    \/ Tick
    \/ Reconfigure
    \/ \E t \in CoreTokens : Request(MainThread, "direct", t)
    \/ Step(MainThread)

SpecReconfig == Init /\ [][NextReconfig]_vars

-----------------------------------------------------------------------------
(* main.py: the items endpoints *)

MaxItemId == 4
MaxItems == 4

ItemIds == 1 .. MaxItemId

\* Request bodies of POST and PUT.
NewItems == { [id |-> i, name |-> "Widget", in_stock |-> TRUE] : i \in ItemIds }

\* Mutant of IdExists: only the first item is compared.
IdExistsFirstOnly(db, id) == Len(db) > 0 /\ db[1].id = id

\* any(existing_item.id == item.id for existing_item in items_db), line 176
IdExists(db, id) == \E i \in 1 .. Len(db) : db[i].id = id

\* Index of the first item with the id: the loops of lines 151-153, 202-206
\* and 225-229 stop at the first match (0: none).
FirstIndex(db, id) ==
    IF \E i \in 1 .. Len(db) : db[i].id = id
    THEN CHOOSE i \in 1 .. Len(db) :
            /\ db[i].id = id
            /\ \A j \in 1 .. (i - 1) : db[j].id # id
    ELSE 0

\* items_db.pop(i), line 227
Pop(db, i) == SubSeq(db, 1, i - 1) \o SubSeq(db, i + 1, Len(db))

Call(op, id, item, status) == [op |-> op, id |-> id, item |-> item, status |-> status]

\* GET /api/v1/items/{item_id}, lines 135-156
get_item(item_id) ==
    /\ LET i == FirstIndex(items_db, item_id) IN
       api' = IF i # 0 THEN Call("get", item_id, items_db[i], 200)
              ELSE Call("get", item_id, NoItem, 404)
    /\ UNCHANGED items_db

\* POST /api/v1/items, lines 159-182
create_item(item) ==
    IF IdExists(items_db, item.id)
    THEN /\ api' = Call("create", item.id, item, 400)
         /\ UNCHANGED items_db
    ELSE /\ Len(items_db) < MaxItems
         /\ items_db' = Append(items_db, item)
         /\ api' = Call("create", item.id, item, 201)

\* PUT /api/v1/items/{item_id}, lines 185-209
update_item(item_id, updated_item) ==
    LET i == FirstIndex(items_db, item_id) IN
    IF i # 0
    THEN /\ items_db' = [items_db EXCEPT ![i] = updated_item]
         /\ api' = Call("update", item_id, updated_item, 200)
    ELSE /\ api' = Call("update", item_id, updated_item, 404)
         /\ UNCHANGED items_db

\* DELETE /api/v1/items/{item_id}, lines 212-232
delete_item(item_id) ==
    LET i == FirstIndex(items_db, item_id) IN
    IF i # 0
    THEN /\ items_db' = Pop(items_db, i)
         /\ api' = Call("delete", item_id, NoItem, 204)
    ELSE /\ api' = Call("delete", item_id, NoItem, 404)
         /\ UNCHANGED items_db

GetItem == (\E id \in ItemIds : get_item(id)) /\ UNCHANGED <<jwtShared, jwtLocal>>
CreateItem == (\E item \in NewItems : create_item(item)) /\ UNCHANGED <<jwtShared, jwtLocal>>
UpdateItem ==
    /\ \E id \in ItemIds, item \in NewItems : update_item(id, item)
    /\ UNCHANGED <<jwtShared, jwtLocal>>
DeleteItem == (\E id \in ItemIds : delete_item(id)) /\ UNCHANGED <<jwtShared, jwtLocal>>

NextItems ==
    \/ GetItem
    \/ CreateItem
    \/ UpdateItem
    \/ DeleteItem

\* The items application does not import the validator: its configuration is
\* left unset.
InitItems ==
    /\ TEAM_DOMAIN = Unset
    /\ AUD_TAG = Unset
    /\ InitRest

SpecItems == InitItems /\ [][NextItems]_vars

-----------------------------------------------------------------------------
(* Properties *)

\* Key i of ks is the one the scan selects for kid: the first with that kid.
Selected(ks, kid, i) ==
    /\ i \in 1 .. Len(ks)
    /\ ks[i].kid = kid
    /\ \A j \in 1 .. (i - 1) : ks[j].kid # kid

TokenPresent(p) == token[p].form # "absent"

\* The request of thread p calls validate_access_jwt.
Called(p) == mode[p] = "direct" \/ (TokenPresent(p) /\ scope[p] = "http")

\* C1: under any interleaving of validate calls and cache refreshes, a call
\* returns claims only for a token whose signature verifies under the key
\* selected for its kid in the keys the call holds, and a call whose token's
\* signature does not verify under that key ends in InvalidSignatureError.
C1_SignatureVerified ==
    \A p \in Threads :
        LET t == token[p] IN
        /\ result[p].kind = "return" =>
              /\ keys[p] # None
              /\ t.form = "jws"
              /\ \E i \in 1 .. Len(keys[p][1]) :
                    Selected(keys[p][1], t.kid, i) /\ t.sig = keys[p][1][i].mat
        /\ (/\ pc[p] = "done"
            /\ keys[p] # None
            /\ t.form = "jws"
            /\ \E i \in 1 .. Len(keys[p][1]) :
                  Selected(keys[p][1], t.kid, i) /\ t.sig # keys[p][1][i].mat)
           => result[p] = Raise("InvalidSignatureError")

\* Two concurrent calls with the same token: one holds a key set under which it
\* verifies, the other a key set under which it does not.
C1_Witness ==
    \E p \in Threads, q \in Threads :
        /\ p # q
        /\ token[p] = token[q]
        /\ result[p].kind = "return"
        /\ result[q] = Raise("InvalidSignatureError")

ClaimsErrors == {"ExpiredSignatureError", "InvalidAudienceError", "InvalidIssuerError"}

\* C2: when validate_access_jwt scans the keys for a token whose kid is in the
\* key set and whose signature verifies, it raises a claims error if the
\* audience differs from AUD_TAG, the issuer differs from https://<TEAM_DOMAIN>
\* or the expiry is in the past, and returns the token's payload if the three
\* agree (expiry absent or in the future).
C2_ClaimsChecked ==
    [][\A p \in Threads :
          (pc[p] = "scan" /\ pc'[p] = "done") =>
             LET t == token[p]
                 ks == keys[p][1]
                 bad == \/ t.aud # AUD_TAG
                        \/ t.iss # "https://" \o TEAM_DOMAIN
                        \/ (t.exp # NoExp /\ t.exp < now)
                 good == /\ t.aud = AUD_TAG
                         /\ t.iss = "https://" \o TEAM_DOMAIN
                         /\ (t.exp = NoExp \/ t.exp > now)
             IN (/\ t.form = "jws"
                 /\ \E i \in 1 .. Len(ks) : Selected(ks, t.kid, i) /\ t.sig = ks[i].mat)
                => /\ bad => (result'[p].kind = "raise" /\ result'[p].exc \in ClaimsErrors)
                   /\ good => result'[p] = [kind |-> "return", exc |-> "",
                                            payload |-> [sub |-> t.sub, aud |-> t.aud,
                                                         iss |-> t.iss, exp |-> t.exp]]
    ]_vars

\* A verified token with a wrong audience only was refused.
C2_Witness ==
    \E p \in Threads :
        /\ pc[p] = "done"
        /\ result[p] = Raise("InvalidAudienceError")
        /\ token[p].aud # AUD_TAG
        /\ token[p].exp = TokenExp

\* The failures other than the unknown key: configuration, key fetch, malformed
\* token, signature, claims.
OtherFailures ==
    {"ValueError", "Timeout", "HTTPError", "KeyError", "DecodeError",
     "InvalidSignatureError", "ExpiredSignatureError", "InvalidAudienceError",
     "InvalidIssuerError"}

\* C3: a call whose token's kid is in none of the keys it holds ends in a
\* failure of a kind of its own: a handler for that kind catches none of the
\* other failures.
C3_UnknownKeyDistinct ==
    \A p \in Threads :
        (/\ pc[p] = "done"
         /\ keys[p] # None
         /\ token[p].form = "jws"
         /\ token[p].kid # NoKid
         /\ \A i \in 1 .. Len(keys[p][1]) : keys[p][1][i].kid # token[p].kid)
        => /\ result[p].kind = "raise"
           /\ \A c \in OtherFailures : ~IsInstance(c, result[p].exc)

\* C4: with TEAM_DOMAIN or AUD_TAG unset, no call gets into get_public_keys or
\* fetches, and every call that has ended has raised ValueError.
C4_ConfigError ==
    (TEAM_DOMAIN = Unset \/ AUD_TAG = Unset) =>
        \A p \in Threads :
            /\ ~fetched[p]
            /\ pc[p] \in {"idle", "validate", "done"}
            /\ (pc[p] = "done" /\ Called(p)) => result[p] = Raise("ValueError")

\* Only the audience tag is unset and a call has ended.
C4_Witness ==
    /\ TEAM_DOMAIN # Unset
    /\ AUD_TAG = Unset
    /\ \E p \in Threads : pc[p] = "done" /\ Called(p) /\ result[p] = Raise("ValueError")

\* C5: a single caller that holds a key list fetched less than CACHE_DURATION
\* ago is never about to fetch, whatever the key list (the empty one included).
C5_FreshCacheNoFetch ==
    pc[MainThread] = "fetch" =>
        ~(/\ _keys_cache # None
          /\ (current_time[MainThread] - _keys_cache_time) < CACHE_DURATION)

C7_OptionalMode ==
    \A p \in Threads :
        (pc[p] = "done" /\ mode[p] \in OptionalModes /\ scope[p] = "http") =>
            /\ invoked[p]
            /\ cf_access[p] # None <=> (TokenPresent(p) /\ result[p].kind = "return")

\* The optional decorator ran the handler with no identity for a refused token.
C7_Witness ==
    \E p \in Threads :
        /\ pc[p] = "done"
        /\ mode[p] = "flask_optional"
        /\ TokenPresent(p)
        /\ result[p].kind = "raise"
        /\ invoked[p]
        /\ cf_access[p] = None

\* C8: no step replaces the cached fetch timestamp by a smaller one.
C8_TimestampMonotone == [][_keys_cache_time' >= _keys_cache_time]_vars

\* C9: in required mode the answer to an HTTP request whose token was refused
\* is the wrapper's fixed 401 body, whatever validate_access_jwt raised.
C9_FixedBody ==
    \A p \in Threads :
        (/\ pc[p] = "done"
         /\ mode[p] \in RequiredModes
         /\ scope[p] = "http"
         /\ TokenPresent(p)
         /\ result[p].kind = "raise")
        => http[p] = [status |-> 401, error |-> "Unauthorized",
                      message |-> IF mode[p] = "flask_required"
                                  THEN "Invalid Cloudflare Access token"
                                  ELSE "Invalid token"]

\* The decorator answered a failed key fetch.
C9_Witness ==
    \E p \in Threads :
        /\ pc[p] = "done"
        /\ mode[p] = "flask_required"
        /\ result[p] = Raise("HTTPError")
        /\ http[p].status = 401

\* C10: create_item with an id already in items_db answers 400 and leaves
\* items_db as it was; with a new id it answers 201 and items_db becomes the
\* old list followed by the item.
C10_CreateItem ==
    [][api'.op = "create" =>
          LET item == api'.item IN
          IF \E i \in 1 .. Len(items_db) : items_db[i].id = item.id
          THEN api'.status = 400 /\ items_db' = items_db
          ELSE api'.status = 201 /\ items_db' = items_db \o <<item>>
    ]_vars

\* A create was refused after another had been accepted.
C10_Witness ==
    /\ api.op = "create"
    /\ api.status = 400
    /\ Len(items_db) > Len(InitialItems)

\* C11: with the configuration set, a call whose token is not a three-part
\* signed token makes no key fetch and ends in DecodeError, whatever the state
\* of the cache and whatever the fetch would answer.
C11_MalformedBeforeFetch ==
    \A p \in Threads :
        (/\ TEAM_DOMAIN # Unset
         /\ AUD_TAG # Unset
         /\ Called(p)
         /\ token[p].form = "malformed")
        => /\ ~fetched[p]
           /\ pc[p] = "done" => result[p] = Raise("DecodeError")

\* C12: a call made while TEAM_DOMAIN or AUD_TAG is unset ends in ValueError and
\* makes no key fetch, also when an earlier call of the process passed the
\* configuration check.
C12_ConfigCheckedEveryCall ==
    \A p \in Threads :
        (/\ (TEAM_DOMAIN = Unset \/ AUD_TAG = Unset)
         /\ Called(p)
         /\ pc[p] # "idle")
        => /\ ~fetched[p]
           /\ pc[p] = "done" => result[p] = Raise("ValueError")

\* C13: whenever the cache holds keys, the stored timestamp is the timestamp of
\* the call whose fetch produced those keys.
C13_AtomicSwap ==
    _keys_cache # None => _keys_cache_time = keys_fetched_at

\* C14: a call reaches requests.get at most once; when the fetch fails the call
\* ends at once with the fetch's error and without keys, no step of the call up
\* to and including the failed fetch changes _keys_cache or _keys_cache_time,
\* and a call that finds the cache empty or stale goes to the fetch.
C14_FetchFailureFrame ==
    [][\A p \in Threads :
          /\ (pc[p] = "fetch" \/ pc'[p] = "fetch") => ~fetched[p]
          /\ (pc[p] = "fetch" /\ pc'[p] # "fetch") => fetched'[p]
          /\ (pc[p] = "fetch" /\ pc'[p] = "done") =>
                /\ result'[p].kind = "raise"
                /\ result'[p].exc \in FetchFailures
                /\ keys'[p] = None
          /\ (pc[p] \in {"validate", "get_public_keys", "check_cache", "check_age", "fetch"}
              /\ pc'[p] # pc[p]) =>
                /\ _keys_cache' = _keys_cache
                /\ _keys_cache_time' = _keys_cache_time
          /\ (pc[p] = "check_cache" /\ pc'[p] # pc[p] /\ _keys_cache = None) =>
                pc'[p] = "fetch"
          /\ (pc[p] = "check_age" /\ pc'[p] # pc[p]
              /\ current_time[p] - _keys_cache_time >= CACHE_DURATION) =>
                pc'[p] = "fetch"
    ]_vars

\* A fetch on a stale cache failed and the stale keys are still held.
C14_Witness ==
    \E p \in Threads :
        /\ pc[p] = "done"
        /\ fetched[p]
        /\ keys[p] = None
        /\ result[p].kind = "raise"
        /\ result[p].exc \in FetchFailures
        /\ _keys_cache # None
        /\ now - _keys_cache_time >= CACHE_DURATION

\* C15: a call whose token's kid is carried by no key of the held key list makes
\* no fetch while the held list is within the freshness window, and a call that
\* ended on the held list without a fetch ended in 'No matching key found'.
C15_NoRefreshOnUnknownKey ==
    \A p \in Threads :
        LET t == token[p] IN
        (/\ Called(p)
         /\ t.form = "jws"
         /\ t.kid # NoKid
         /\ _keys_cache # None
         /\ \A i \in 1 .. Len(_keys_cache[1]) : _keys_cache[1][i].kid # t.kid)
        => /\ pc[p] = "fetch" => ~Fresh(current_time[p], _keys_cache_time)
           /\ (pc[p] = "done" /\ ~fetched[p] /\ keys[p] # None)
                 => result[p] = Raise("Exception")

\* C16: when validate_access_jwt scans a key list in which several keys carry
\* the token's kid, the outcome is the outcome of jwt.decode under the first of
\* them: InvalidSignatureError if the signature does not verify under it, also
\* when it verifies under a later key of the same kid, and otherwise the claims
\* or the claims error that the first key gives.
C16_FirstMatchWins ==
    [][\A p \in Threads :
          (pc[p] = "scan" /\ pc'[p] = "done" /\ token[p].form = "jws") =>
             LET t == token[p]
                 ks == keys[p][1]
             IN \A i \in 1 .. Len(ks), j \in 1 .. Len(ks) :
                   (/\ i < j
                    /\ Selected(ks, t.kid, i)
                    /\ ks[j].kid = t.kid)
                   => /\ result'[p] = jwt_decode(t, ks[i], AUD_TAG,
                                                 "https://" \o TEAM_DOMAIN, now)
                      /\ t.sig # ks[i].mat => result'[p] = Raise("InvalidSignatureError")
                      /\ t.sig = ks[i].mat => result'[p].exc # "InvalidSignatureError"
    ]_vars

\* A call ended in InvalidSignatureError on a key list whose second key of the
\* token's kid verifies the signature.
C16_Witness ==
    \E p \in Threads :
        /\ pc[p] = "done"
        /\ keys[p] # None
        /\ token[p].form = "jws"
        /\ result[p] = Raise("InvalidSignatureError")
        /\ \E i \in 1 .. Len(keys[p][1]), j \in 1 .. Len(keys[p][1]) :
              /\ i < j
              /\ Selected(keys[p][1], token[p].kid, i)
              /\ keys[p][1][j].kid = token[p].kid
              /\ token[p].sig = keys[p][1][j].mat
              /\ token[p].sig # keys[p][1][i].mat

\* C17: no two items of items_db have the same id.
C17_UniqueIds ==
    \A i \in 1 .. Len(items_db), j \in 1 .. Len(items_db) :
        i # j => items_db[i].id # items_db[j].id

\* C18: after an update_item(item_id, X) answered 200 a get_item(item_id) finds
\* X; after a delete_item(item_id) answered 204 a get_item(item_id) finds
\* nothing; update_item and delete_item of an id that is not in items_db answer
\* 404 and leave items_db unchanged.
C18_UpdateDeleteThenGet ==
    [][/\ (api'.op = "update" /\ api'.status = 200) =>
             LET i == FirstIndex(items_db', api'.id) IN
             /\ i # 0
             /\ items_db'[i] = api'.item
       /\ (api'.op = "delete" /\ api'.status = 204) =>
             FirstIndex(items_db', api'.id) = 0
       /\ (api'.op \in {"update", "delete"}
           /\ \A i \in 1 .. Len(items_db) : items_db[i].id # api'.id) =>
             /\ api'.status = 404
             /\ items_db' = items_db
    ]_vars

====
